---------------------------- MODULE Spec2Model ----------------------------
(***************************************************************************)
(* A model of grpc-sys/build.rs, the build script that builds the vendored *)
(* gRPC C core, emits the cargo link directives and resolves the path of   *)
(* the bindings file.                                                      *)
(*                                                                         *)
(* Text is a sequence of tokens.  A token is a string that the code only   *)
(* ever handles as a whole (a key prefix of the CMake cache, a directory   *)
(* name, one character of a path).  Every line that the script prints is a *)
(* record [kind, mod, arg, by]: the cargo key, the modifier ("static",     *)
(* "framework", "native" or none), its argument and the function that      *)
(* printed it.                                                             *)
(***************************************************************************)
EXTENDS Integers, Sequences, FiniteSets, TLC

VARIABLES
    pc,       \* position of the script: the next stage of main()
    feat,     \* compile-time features: [secure, openssl, vendored]
    env,      \* the process environment, each variable resolved at its first read
    out,      \* everything printed to cargo so far, in order
    stages,   \* the functions entered so far, in order
    fail,     \* the panic that ended the run, NoFail while it runs
    fs,       \* the vendored module directories: populated, empty or unreadable
    cmake,    \* the native build invocations: [target, prefix]
    cache,    \* <build_dir>/CMakeCache.txt: its lines, known once the file is read
    cnt,      \* figure_ssl_path's match counter
    tree,     \* the entries under ./grpc/include
    calls     \* the bindgen_grpc invocations: [handed, headers, file_path, fail]

vars == <<pc, feat, env, out, stages, fail, fs, cmake, cache, cnt, tree, calls>>

---------------------------------------------------------------------------
(* Option values *)

None == [some |-> FALSE, v |-> <<>>]

Some(x) == [some |-> TRUE, v |-> x]

---------------------------------------------------------------------------
(* The environment *)

Unread == [st |-> "unread", v |-> <<>>]

Unset == [st |-> "unset", v |-> <<>>]

NotUnicode == [st |-> "notunicode", v |-> <<>>]

Text(t) == [st |-> "set", v |-> t]

Val(s) == Text(<<s>>)

\* A variant of the reuse list that also holds the musl triple
ReuseTriplesWithMusl ==
    {"x86_64-unknown-linux-gnu", "aarch64-unknown-linux-gnu", "x86_64-unknown-linux-musl"}

ReuseTriples == {"x86_64-unknown-linux-gnu", "aarch64-unknown-linux-gnu"}

Triples == ReuseTriples \cup {"x86_64-unknown-linux-musl", "x86_64-apple-darwin"}

\* The values each variable is drawn from in a pipeline run.
EnvDomain ==
    [ CARGO_CFG_TARGET_OS |-> {Unset, NotUnicode, Val("linux"), Val("macos"),
                               Val("ios"), Val("windows")},
      GRPCIO_SYS_USE_PKG_CONFIG |-> {Unset, NotUnicode, Val("1"), Val("0")},
      CXX |-> {Unset, NotUnicode, Val("clang++")},
      CARGO_CFG_TARGET_ENV |-> {Unset, Val("musl")},
      TARGET |-> {Unset} \cup {Val(t) : t \in Triples},
      PROFILE |-> {Unset, Val("debug"), Val("bench")},
      DEP_Z_ROOT |-> {Unset, Text(<<"/", "z">>)},
      CMAKE_PREFIX_PATH |-> {Unset, Text(<<"p", ";", "q">>)},
      UPDATE_BIND |-> {Unset, Val("1"), Val("0")},
      CARGO_MANIFEST_DIR |-> {Unset, Text(<<"/", "m">>)},
      OUT_DIR |-> {Unset, Text(<<"/", "o">>)} ]

EnvVars == DOMAIN EnvDomain

\* The environments that agree with e and give a value to the variables vs
\* that e has not read yet.
RECURSIVE Reads(_, _)
Reads(e, vs) ==
    IF vs = {} THEN {e}
    ELSE LET v == CHOOSE x \in vs : TRUE
             vals == IF e[v] = Unread THEN EnvDomain[v] ELSE {e[v]}
         IN UNION {Reads([e EXCEPT ![v] = val], vs \ {v}) : val \in vals}

\* e, with the variables outside `read` left as they were in `old`.
Keep(e, old, read) == [v \in EnvVars |-> IF v \in read THEN e[v] ELSE old[v]]

---------------------------------------------------------------------------
(* Printed lines *)

D(kind, mod, arg, by) == [kind |-> kind, mod |-> mod, arg |-> arg, by |-> by]

RerunIfChanged(p, by) == D("rerun-if-changed", "", p, by)

\* get_env's println
RerunIfEnvChanged(name) == D("rerun-if-env-changed", "", <<name>>, "get_env")

LinkSearch(p, by) == D("rustc-link-search", "native", p, by)

LinkStatic(name, by) == D("rustc-link-lib", "static", <<name>>, by)

LinkFramework(name, by) == D("rustc-link-lib", "framework", <<name>>, by)

LinkDylib(name, by) == D("rustc-link-lib", "", <<name>>, by)

RustcEnv(name, value, by) == D("rustc-env", name, value, by)

NoFail == [why |-> "", arg |-> ""]

Panic(why, arg) == [why |-> why, arg |-> arg]

Repeat(x, n) == [i \in 1..n |-> x]

---------------------------------------------------------------------------
(* prepare_grpc *)

BoringSsl == "grpc/third_party/boringssl-with-bazel"

BaseModules ==
    << "grpc", "grpc/third_party/cares/cares",
       "grpc/third_party/address_sorting", "grpc/third_party/abseil-cpp" >>

AllModules == {BaseModules[i] : i \in DOMAIN BaseModules} \cup {BoringSsl}

Modules(f) ==
    IF f.secure /\ ~f.openssl THEN Append(BaseModules, BoringSsl) ELSE BaseModules

\* is_directory_empty(module).unwrap_or(true)
\* A variant of the test that lets a missing or unreadable directory pass
IsDirectoryEmptyOnly(status) == status = "empty"

IsDirectoryEmptyOrErr(status) == status # "populated"

\* The first module of the list that the loop panics on, 0 when there is none.
FirstBad(ms, f) ==
    LET bad == {i \in DOMAIN ms : IsDirectoryEmptyOrErr(f[ms[i]])}
    IN IF bad = {} THEN 0 ELSE CHOOSE i \in bad : \A j \in bad : i <= j

---------------------------------------------------------------------------
(* std::path::Path, for the paths figure_ssl_path meets: text over "/" and *)
(* name characters, no "." component                                       *)

Slash == "/"

RECURSIVE StripSlashes(_)
\* p without its trailing separators
StripSlashes(p) ==
    IF p # <<>> /\ p[Len(p)] = Slash THEN StripSlashes(SubSeq(p, 1, Len(p) - 1))
    ELSE p

RECURSIVE StripName(_)
\* p without its last run of name characters
StripName(p) ==
    IF p # <<>> /\ p[Len(p)] # Slash THEN StripName(SubSeq(p, 1, Len(p) - 1))
    ELSE p

\* Path::parent: None for the empty path and for a root; else the path
\* without its last component, the root kept.
Parent(p) ==
    LET q == StripSlashes(p)
        r == StripName(q)
        s == StripSlashes(r)
    IN IF q = <<>> THEN None
       ELSE IF r # <<>> /\ s = <<>> THEN Some(<<Slash>>)
       ELSE Some(s)

---------------------------------------------------------------------------
(* trim_start and figure_ssl_path *)

\* The two key prefixes.  Neither is a prefix of the other and neither
\* overlaps itself, so each is one token of a line.
CryptoKey == "OPENSSL_CRYPTO_LIBRARY:FILEPATH="

SslKey == "OPENSSL_SSL_LIBRARY:FILEPATH="

\* str::starts_with, for a prefix that is one token
starts_with(s, prefix) == s # <<>> /\ s[1] = prefix

RECURSIVE trim_start_matches(_, _)
\* str::trim_start_matches: the prefix removed repeatedly
trim_start_matches(s, prefix) ==
    IF starts_with(s, prefix) THEN trim_start_matches(Tail(s), prefix) ELSE s

trim_start(s, prefix) ==
    IF starts_with(s, prefix) THEN Some(trim_start_matches(s, prefix)) ELSE None

\* trim_start(&l, CRYPTO).or_else(|| trim_start(&l, SSL))
\* A variant of the match that knows the crypto key alone
MatchLineCryptoOnly(l) == trim_start(l, CryptoKey)

MatchLine(l) ==
    IF trim_start(l, CryptoKey).some THEN trim_start(l, CryptoKey)
    ELSE trim_start(l, SslKey)

RECURSIVE ScanLines(_, _, _, _)
\* The loop over the cache's lines from line i on, with c matches counted and
\* `printed` printed so far.  It stops where parent().unwrap() panics.
ScanLines(lines, i, c, printed) ==
    IF i > Len(lines) THEN [cnt |-> c, out |-> printed, panic |-> FALSE]
    ELSE LET t == MatchLine(lines[i]) IN
         IF ~t.some THEN ScanLines(lines, i + 1, c, printed)
         ELSE IF ~Parent(t.v).some THEN [cnt |-> c, out |-> printed, panic |-> TRUE]
         ELSE ScanLines(lines, i + 1, c + 1,
                        Append(printed, LinkSearch(Parent(t.v).v, "figure_ssl_path")))

\* figure_ssl_path as a whole: what it prints, its counter and its panic.
FigureSslPath(lines) ==
    LET r == ScanLines(lines, 1, 0, <<>>) IN
    IF r.panic THEN
        [out |-> r.out, cnt |-> r.cnt, fail |-> Panic("unwrap on None", "Path::parent")]
    ELSE IF r.cnt # 2 THEN
        [out |-> r.out, cnt |-> r.cnt, fail |-> Panic("CMake cache invalid", "CMakeCache.txt")]
    ELSE
        [out |-> r.out \o << LinkDylib("ssl", "figure_ssl_path"),
                             LinkDylib("crypto", "figure_ssl_path") >>,
         cnt |-> r.cnt, fail |-> NoFail]

---------------------------------------------------------------------------
(* bindgen_grpc: the header scan *)

\* Paths are byte strings; String's Ord compares them byte by byte.
RECURSIVE LexLess(_, _)
LexLess(a, b) ==
    IF a = <<>> THEN b # <<>>
    ELSE IF b = <<>> THEN FALSE
    ELSE IF a[1] # b[1] THEN a[1] < b[1]
    ELSE LexLess(Tail(a), Tail(b))

LexLeq(a, b) == a = b \/ LexLess(a, b)

RECURSIVE Insert(_, _)
Insert(x, s) ==
    IF s = <<>> THEN <<x>>
    ELSE IF LexLeq(x, s[1]) THEN <<x>> \o s
    ELSE <<s[1]>> \o Insert(x, Tail(s))

\* A variant of the sort that leaves the enumeration order
NoSort(s) == s

RECURSIVE Sort(_)
\* headers.sort()
Sort(s) == IF s = <<>> THEN <<>> ELSE Insert(s[1], Sort(Tail(s)))

\* What a directory entry is: a directory, a symlink, or a regular file
\* with its content: no marker, one of the markers, both, or not UTF-8.
EntryKinds == {"dir", "symlink", "plain", "GRPCAPI", "GPRAPI", "both", "binary"}

IsFile(k) == k \notin {"dir", "symlink"}

\* buf.contains("GRPCAPI") || buf.contains("GPRAPI")
HasMarker(k) == k \in {"GRPCAPI", "GPRAPI", "both"}

RECURSIVE Collect(_, _, _)
\* The loop over WalkDir's entries from entry i on: the headers pushed, or
\* the panic of read_to_string on a file that is not UTF-8.
Collect(walk, i, headers) ==
    IF i > Len(walk) THEN [headers |-> headers, panic |-> FALSE]
    ELSE LET dent == walk[i] IN
         IF ~IsFile(dent.kind) THEN Collect(walk, i + 1, headers)
         ELSE IF dent.kind = "binary" THEN [headers |-> headers, panic |-> TRUE]
         ELSE IF HasMarker(dent.kind) THEN Collect(walk, i + 1, Append(headers, dent.path))
         ELSE Collect(walk, i + 1, headers)

\* The headers handed to the translator, in the order config.header is called.
HeaderList(walk) == Sort(Collect(walk, 1, <<>>).headers)

\* bindgen_grpc as a whole on the enumeration `walk`: the invocation record
\* (the headers handed over, the file written) and the panic, if any.
BindgenGrpc(walk, walkOk, xlateOk, file_path) ==
    IF ~walkOk THEN
        [handed |-> FALSE, headers |-> <<>>, file_path |-> file_path,
         fail |-> Panic("Error happened when search headers", "")]
    ELSE IF Collect(walk, 1, <<>>).panic THEN
        [handed |-> FALSE, headers |-> <<>>, file_path |-> file_path,
         fail |-> Panic("Coundn't read header content", "")]
    ELSE IF ~xlateOk THEN
        [handed |-> TRUE, headers |-> HeaderList(walk), file_path |-> file_path,
         fail |-> Panic("Unable to generate grpc bindings", "")]
    ELSE
        [handed |-> TRUE, headers |-> HeaderList(walk), file_path |-> file_path,
         fail |-> NoFail]

\* The enumerations of a tree: its entries in any order, each once.
Walks(t) ==
    {w \in [1..Cardinality(t) -> t] : \A i, j \in 1..Cardinality(t) : w[i] = w[j] => i = j}

---------------------------------------------------------------------------
(* main, up to the choice between pkg-config and a build from source *)

\* main's `library`
Library(f) == IF f.secure THEN "grpc" ELSE "grpc_unsecure"

OsIs(e, name) == e["CARGO_CFG_TARGET_OS"] = Val(name)

\* Lines 367-398: the three rerun lines, then get_env twice; either get_env
\* panics on a value that is not unicode, after its own println.
Main ==
    /\ pc = "main"
    /\ \E e \in Reads(env, {"CARGO_CFG_TARGET_OS", "GRPCIO_SYS_USE_PKG_CONFIG"}) :
        LET o1 == out \o << RerunIfChanged(<<"grpc_wrap.cc">>, "main"),
                            RerunIfChanged(<<"grpc">>, "main"),
                            D("rerun-if-env-changed", "", <<"UPDATE_BIND">>, "main"),
                            RerunIfEnvChanged("CARGO_CFG_TARGET_OS") >>
            o2 == Append(o1, RerunIfEnvChanged("GRPCIO_SYS_USE_PKG_CONFIG"))
        IN IF e["CARGO_CFG_TARGET_OS"] = NotUnicode THEN
               /\ out' = o1
               /\ env' = Keep(e, env, {"CARGO_CFG_TARGET_OS"})
               /\ fail' = Panic("unrecognize env var of", "CARGO_CFG_TARGET_OS")
               /\ pc' = "failed"
           ELSE IF e["GRPCIO_SYS_USE_PKG_CONFIG"] = NotUnicode THEN
               /\ out' = o2
               /\ env' = e
               /\ fail' = Panic("unrecognize env var of", "GRPCIO_SYS_USE_PKG_CONFIG")
               /\ pc' = "failed"
           ELSE
               /\ out' = o2
               /\ env' = e
               /\ fail' = fail
               /\ pc' = IF e["GRPCIO_SYS_USE_PKG_CONFIG"] = Val("1") THEN "probe"
                        ELSE "prepare"
    /\ UNCHANGED <<feat, stages, fs, cmake, cache, cnt, tree, calls>>

\* probe_library(library, true): pkg-config prints the link lines of the
\* installed library itself, or the probe panics.
ProbeLibrary ==
    /\ pc = "probe"
    /\ stages' = Append(stages, "probe_library")
    /\ \E found \in BOOLEAN :
        IF found THEN
            /\ out' = out \o << LinkSearch(<<"${pkg-config libdir}">>, "probe_library"),
                                LinkDylib(Library(feat), "probe_library") >>
            /\ pc' = "cc"
            /\ fail' = fail
        ELSE
            /\ out' = out
            /\ pc' = "failed"
            /\ fail' = Panic("can't find library via pkg-config", Library(feat))
    /\ UNCHANGED <<feat, env, fs, cmake, cache, cnt, tree, calls>>

---------------------------------------------------------------------------
(* build_grpc *)

Statuses == {"populated", "empty", "unreadable"}

\* What the file system may hold for the modules of list ms; a directory
\* outside the list is never looked at.
FsFor(ms) ==
    {f \in [AllModules -> Statuses \cup {"unused"}] :
        \A m \in AllModules :
            (f[m] = "unused") <=> (m \notin {ms[i] : i \in DOMAIN ms})}

\* prepare_grpc, the first statement of build_grpc
PrepareGrpc ==
    /\ pc = "prepare"
    /\ stages' = Append(stages, "prepare_grpc")
    /\ LET k == FirstBad(Modules(feat), fs) IN
       IF k = 0 THEN pc' = "configure" /\ fail' = fail
       ELSE pc' = "failed" /\ fail' = Panic("Can't find module", Modules(feat)[k])
    /\ UNCHANGED <<feat, env, out, fs, cmake, cache, cnt, tree, calls>>

\* build_grpc's `third_party`
ThirdParty(f) ==
    << "cares/cares/lib", "abseil-cpp/absl/strings", "abseil-cpp/absl/time",
       "abseil-cpp/absl/base", "abseil-cpp/absl/types", "abseil-cpp/absl/numeric" >>
    \o (IF ~f.openssl /\ f.secure THEN <<"boringssl-with-bazel">> ELSE <<>>)

CoreFoundation == LinkFramework("CoreFoundation", "build_grpc")

\* Lines 74-150, as far as they print or panic: get_env on the target OS once
\* for the C++ library flag and once or twice for CoreFoundation, get_env on
\* CXX, and the two unwraps on CARGO_CFG_TARGET_ENV and TARGET.
BuildGrpcConfigure ==
    /\ pc = "configure"
    /\ \E e \in Reads(env, {"CXX", "CARGO_CFG_TARGET_ENV", "TARGET"}) :
        LET apple == OsIs(env, "macos") \/ OsIs(env, "ios")
            o1 == out
                  \o Repeat(RerunIfEnvChanged("CARGO_CFG_TARGET_OS"),
                            IF OsIs(env, "macos") THEN 2 ELSE 3)
                  \o (IF apple THEN <<CoreFoundation>> ELSE <<>>)
                  \o <<RerunIfEnvChanged("CXX")>>
            cxxBad == e["CXX"] = NotUnicode
            needEnv == e["CXX"] = Unset
            envBad == needEnv /\ e["CARGO_CFG_TARGET_ENV"] = Unset
            targetBad == e["TARGET"] = Unset
            read == {"CXX"}
                    \cup (IF needEnv THEN {"CARGO_CFG_TARGET_ENV"} ELSE {})
                    \cup (IF ~cxxBad /\ ~envBad THEN {"TARGET"} ELSE {})
        IN /\ out' = o1
           /\ env' = Keep(e, env, read)
           /\ IF cxxBad THEN
                  pc' = "failed" /\ fail' = Panic("unrecognize env var of", "CXX")
              ELSE IF envBad THEN
                  pc' = "failed" /\ fail' = Panic("env::var unwrap", "CARGO_CFG_TARGET_ENV")
              ELSE IF targetBad THEN
                  pc' = "failed" /\ fail' = Panic("env::var unwrap", "TARGET")
              ELSE pc' = "setup_libz" /\ fail' = fail
    /\ UNCHANGED <<feat, stages, fs, cmake, cache, cnt, tree, calls>>

\* setup_libz's `prefix_path`
PrefixPath(prior, zlib_root) ==
    IF prior.st = "set" THEN prior.v \o <<";">> \o zlib_root \o <<Slash, "build">>
    ELSE zlib_root \o <<Slash, "build">>

\* setup_libz as a whole
SetupLibz ==
    /\ pc = "setup_libz"
    /\ \E e \in Reads(env, {"DEP_Z_ROOT", "CMAKE_PREFIX_PATH"}) :
        LET zlib_root == e["DEP_Z_ROOT"].v IN
        IF e["DEP_Z_ROOT"] = Unset THEN
            /\ env' = Keep(e, env, {"DEP_Z_ROOT"})
            /\ out' = out
            /\ pc' = "failed"
            /\ fail' = Panic("env::var unwrap", "DEP_Z_ROOT")
        ELSE
            /\ env' = [e EXCEPT !["CMAKE_PREFIX_PATH"] =
                          Text(PrefixPath(e["CMAKE_PREFIX_PATH"], zlib_root))]
            /\ out' = out \o << LinkSearch(zlib_root \o <<Slash, "build">>, "setup_libz"),
                                LinkSearch(zlib_root \o <<Slash, "lib">>, "setup_libz") >>
            /\ pc' = "cmake"
            /\ fail' = fail
    /\ UNCHANGED <<feat, stages, fs, cmake, cache, cnt, tree, calls>>

NoCache == [known |-> FALSE, lines |-> <<>>]

\* The caches a pipeline run may find after the native build: one with both
\* keys among other lines, one without keys, one with a single key, one with
\* the same key twice, one whose second key carries no path.
CryptoLine == <<CryptoKey, Slash, "usr", Slash, "libcrypto.so">>

SslLine == <<SslKey, Slash, "opt", Slash, "libssl.so">>

PipelineCaches ==
    { << <<"CMAKE_BUILD_TYPE:STRING=">>, CryptoLine, SslLine >>,
      << <<"CMAKE_BUILD_TYPE:STRING=">> >>,
      << CryptoLine >>,
      << CryptoLine, CryptoLine >>,
      << CryptoLine, <<SslKey>> >> }

\* config.build_target(library).uses_cxx11().build(): the native build runs
\* with the environment setup_libz left and fails, or returns and leaves a
\* CMakeCache.txt, whose lines the run learns when it reads the file.
CmakeBuild ==
    /\ pc = "cmake"
    /\ stages' = Append(stages, "cmake")
    /\ cmake' = Append(cmake, [target |-> Library(feat),
                               prefix |-> env["CMAKE_PREFIX_PATH"].v])
    /\ \E built \in BOOLEAN :
        IF built THEN pc' = "link_plan" /\ fail' = fail
        ELSE pc' = "failed" /\ fail' = Panic("cmake build failed", Library(feat))
    /\ UNCHANGED <<feat, env, out, fs, cache, cnt, tree, calls>>

\* `build_dir`, under the directory the native build returns
BuildDir == <<"${dst}", Slash, "build">>

\* PROFILE to the directory of the multi-configuration generator
ProfileDir(profile) == IF profile \in {"bench", "release"} THEN "Release" ELSE "Debug"

\* The search paths of lines 157-177; sub is <<>> or the profile directory.
SearchPaths(f, sub) ==
    <<LinkSearch(BuildDir \o sub, "build_grpc")>>
    \o [i \in DOMAIN ThirdParty(f) |->
           LinkSearch(BuildDir \o <<Slash, "third_party", Slash, ThirdParty(f)[i]>> \o sub,
                      "build_grpc")]

\* The static libraries of lines 179-206, in the order printed
DependencyLibs ==
    << "z", "cares", "address_sorting",
       "absl_base", "absl_raw_logging_internal", "absl_dynamic_annotations",
       "absl_throw_delegate", "absl_log_severity", "absl_spinlock_wait",
       "absl_strings", "absl_strings_internal", "absl_str_format_internal",
       "absl_civil_time", "absl_time_zone", "absl_time",
       "absl_bad_optional_access", "absl_int128", "gpr", "upb" >>

\* Lines 179-207
\* A variant of the list with the top-level library first
StaticLibsTopFirst(library) == <<library>> \o DependencyLibs

StaticLibs(library) == Append(DependencyLibs, library)

LinkLibs(library) ==
    [i \in DOMAIN StaticLibs(library) |-> LinkStatic(StaticLibs(library)[i], "build_grpc")]

\* Lines 156-207: the search paths, per profile on windows, and the libraries
LinkPlan ==
    /\ pc = "link_plan"
    /\ stages' = Append(stages, "link_plan")
    /\ \E e \in Reads(env, IF OsIs(env, "windows") THEN {"PROFILE"} ELSE {}) :
        LET o1 == Append(out, RerunIfEnvChanged("CARGO_CFG_TARGET_OS"))
            sub == IF OsIs(env, "windows")
                   THEN <<Slash, ProfileDir(e["PROFILE"].v[1])>> ELSE <<>>
        IN /\ env' = e
           /\ IF OsIs(env, "windows") /\ e["PROFILE"] = Unset THEN
                  /\ out' = o1
                  /\ pc' = "failed"
                  /\ fail' = Panic("env::var unwrap", "PROFILE")
              ELSE
                  /\ out' = o1 \o SearchPaths(feat, sub) \o LinkLibs(Library(feat))
                  /\ pc' = "ssl"
                  /\ fail' = fail
    /\ UNCHANGED <<feat, fs, cmake, cache, cnt, tree, calls>>

\* Whether lines 209-216 call figure_ssl_path
\* A variant of the test that does not look at the vendored feature
UsesLocatorIgnoringVendored(f) == f.secure /\ f.openssl

UsesLocator(f) == f.secure /\ f.openssl /\ ~f.vendored

\* Lines 209-216: nothing without the secure feature; figure_ssl_path for an
\* openssl that is not vendored; else ssl and crypto as static libraries.
SslLink ==
    /\ pc = "ssl"
    /\ IF UsesLocator(feat) THEN
           \E lines \in (IF cache.known THEN {cache.lines} ELSE PipelineCaches) :
               LET r == FigureSslPath(lines) IN
               /\ cache' = [known |-> TRUE, lines |-> lines]
               /\ stages' = Append(stages, "figure_ssl_path")
               /\ out' = out \o r.out
               /\ cnt' = r.cnt
               /\ fail' = r.fail
               /\ pc' = IF r.fail = NoFail THEN "cc" ELSE "failed"
       ELSE
           /\ out' = out \o (IF feat.secure
                             THEN << LinkStatic("ssl", "build_grpc"),
                                     LinkStatic("crypto", "build_grpc") >>
                             ELSE <<>>)
           /\ pc' = "cc"
           /\ UNCHANGED <<stages, cache, cnt, fail>>
    /\ UNCHANGED <<feat, env, fs, cmake, tree, calls>>

\* A variant of the compile step that goes on after a failed compile
CcCompileLenient ==
    /\ pc = "cc"
    /\ stages' = Append(stages, "cc_compile")
    /\ \E compiled \in BOOLEAN :
        /\ pc' = "binding"
        /\ fail' = IF compiled THEN fail ELSE Panic("cc compile failed", "grpc_wrap.cc")
    /\ UNCHANGED <<feat, env, out, fs, cmake, cache, cnt, tree, calls>>

\* Lines 400-406: cc.compile("libgrpc_wrap.a") builds grpc_wrap.cc or panics.
CcCompile ==
    /\ pc = "cc"
    /\ stages' = Append(stages, "cc_compile")
    /\ \E compiled \in BOOLEAN :
        IF compiled THEN pc' = "binding" /\ fail' = fail
        ELSE pc' = "failed" /\ fail' = Panic("cc compile failed", "grpc_wrap.cc")
    /\ UNCHANGED <<feat, env, out, fs, cmake, cache, cnt, tree, calls>>

---------------------------------------------------------------------------
(* config_binding_path *)

\* Header paths under ./grpc/include, as bytes: B.h, a, a.h, a/b.h, ab.h
HeaderPaths ==
    { <<66, 46, 104>>, <<97>>, <<97, 46, 104>>, <<97, 47, 98, 46, 104>>,
      <<97, 98, 46, 104>> }

\* d is the directory that holds p
IsDirOf(d, p) == Len(d) + 1 < Len(p) /\ SubSeq(p, 1, Len(d) + 1) = d \o <<47>>

\* A tree: one entry per path, and what holds an entry is a directory.
IsTree(t) ==
    \A x, y \in t :
        /\ x.path = y.path => x = y
        /\ IsDirOf(x.path, y.path) => x.kind = "dir"

\* The trees a pipeline run may find: two API headers and a plain one, a
\* header that is not UTF-8, an API header in a directory.
PipelineTrees ==
    { { [path |-> <<97, 46, 104>>, kind |-> "GRPCAPI"],
        [path |-> <<66, 46, 104>>, kind |-> "GPRAPI"],
        [path |-> <<97, 98, 46, 104>>, kind |-> "plain"] },
      { [path |-> <<97, 46, 104>>, kind |-> "binary"] },
      { [path |-> <<97>>, kind |-> "dir"],
        [path |-> <<97, 47, 98, 46, 104>>, kind |-> "both"] } }

\* The checked-in file of a reuse triple
BindingsFile(manifest_dir, target) ==
    manifest_dir \o <<Slash, "bindings", Slash, target, "-bindings.rs">>

\* The file of a run, under OUT_DIR
OutFile(out_dir) == out_dir \o <<Slash, "grpc-bindings.rs">>

\* env::var("UPDATE_BIND").map(|s| s == "1").unwrap_or(false)
\* A variant of the override test that takes any value of UPDATE_BIND
UpdateBindWhenSet(e) == e["UPDATE_BIND"].st = "set"

UpdateBind(e) == e["UPDATE_BIND"] = Val("1")

BindingPath(file_path) == RustcEnv("BINDING_PATH", file_path, "config_binding_path")

\* config_binding_path as a whole, bindgen_grpc included
ConfigBindingPath ==
    /\ pc = "binding"
    /\ stages' = Append(stages, "config_binding_path")
    /\ \E e1 \in Reads(env, {"TARGET"}) :
        LET reuse == e1["TARGET"] \in {Val(t) : t \in ReuseTriples}
            dirVar == IF reuse THEN "CARGO_MANIFEST_DIR" ELSE "OUT_DIR"
            o1 == IF reuse
                  THEN Append(out, RerunIfChanged(<<"bindings", Slash, e1["TARGET"].v[1],
                                                    "-bindings.rs">>, "config_binding_path"))
                  ELSE out
        IN IF e1["TARGET"] = Unset THEN
               /\ env' = e1
               /\ out' = out
               /\ pc' = "failed"
               /\ fail' = Panic("env::var unwrap", "TARGET")
               /\ UNCHANGED <<tree, calls>>
           ELSE \E e2 \in Reads(e1, {dirVar}) :
               IF e2[dirVar] = Unset THEN
                   /\ env' = e2
                   /\ out' = o1
                   /\ pc' = "failed"
                   /\ fail' = Panic("env::var unwrap", dirVar)
                   /\ UNCHANGED <<tree, calls>>
               ELSE \E e \in Reads(e2, IF reuse THEN {"UPDATE_BIND"} ELSE {}) :
                   LET file_path == IF reuse
                                    THEN BindingsFile(e[dirVar].v, e["TARGET"].v[1])
                                    ELSE OutFile(e[dirVar].v)
                   IN /\ env' = e
                      /\ IF ~reuse \/ UpdateBind(e) THEN
                             \E t \in PipelineTrees : \E walk \in Walks(t) :
                             \E walkOk, xlateOk \in BOOLEAN :
                                 LET r == BindgenGrpc(walk, walkOk, xlateOk, file_path) IN
                                 /\ tree' = t
                                 /\ calls' = Append(calls, r)
                                 /\ fail' = r.fail
                                 /\ IF r.fail = NoFail
                                    THEN out' = Append(o1, BindingPath(file_path)) /\ pc' = "done"
                                    ELSE out' = o1 /\ pc' = "failed"
                         ELSE
                             /\ out' = Append(o1, BindingPath(file_path))
                             /\ pc' = "done"
                             /\ UNCHANGED <<fail, tree, calls>>
    /\ UNCHANGED <<feat, fs, cmake, cache, cnt>>

---------------------------------------------------------------------------
(* The pipeline: one run of main() *)

Features == [secure : BOOLEAN, openssl : BOOLEAN, vendored : BOOLEAN]

Init ==
    /\ pc = "main"
    /\ feat \in Features
    /\ env = [v \in EnvVars |-> Unread]
    /\ out = <<>>
    /\ stages = <<>>
    /\ fail = NoFail
    /\ fs \in FsFor(Modules(feat))
    /\ cmake = <<>>
    /\ cache = NoCache
    /\ cnt = 0
    /\ tree = {}
    /\ calls = <<>>

Next ==
    \/ Main
    \/ ProbeLibrary
    \/ PrepareGrpc
    \/ BuildGrpcConfigure
    \/ SetupLibz
    \/ CmakeBuild
    \/ LinkPlan
    \/ SslLink
    \/ CcCompile
    \/ ConfigBindingPath

Spec == Init /\ [][Next]_vars

---------------------------------------------------------------------------
(* figure_ssl_path on any cache *)

MaxCacheLines == 3

SeqsUpTo(S, n) == UNION {[1..k -> S] : k \in 0..n}

UsrCrypto == <<Slash, "usr", Slash, "libcrypto.so">>

OptSsl == <<Slash, "opt", Slash, "libssl.so">>

\* The lines of a cache: no key, a key that is not at the start, each key
\* with no path, a root, a bare file name, a file of the root, a file of a
\* directory, doubled and trailing separators, and a value that itself starts
\* with a key.
CacheLines ==
    { <<>>,
      <<"#", SslKey>> \o OptSsl,
      <<CryptoKey>>,
      <<CryptoKey, Slash>>,
      <<CryptoKey, "libcrypto.so">>,
      <<CryptoKey, Slash, "libcrypto.so">>,
      <<CryptoKey>> \o UsrCrypto,
      <<SslKey>>,
      <<SslKey>> \o OptSsl,
      <<SslKey, Slash, "usr", Slash, "libssl.so">>,
      <<SslKey, Slash, "opt", Slash, Slash, "ssl", Slash>>,
      <<CryptoKey, CryptoKey>> \o UsrCrypto,
      <<CryptoKey, SslKey>> \o OptSsl,
      <<SslKey, SslKey>> \o OptSsl }

Caches == SeqsUpTo(CacheLines, MaxCacheLines)

Idle ==
    /\ env = [v \in EnvVars |-> Unread]
    /\ out = <<>>
    /\ stages = <<>>
    /\ fail = NoFail
    /\ cmake = <<>>
    /\ cnt = 0
    /\ calls = <<>>

\* build_grpc has reached line 209 with an openssl that is not vendored.
InitSsl ==
    /\ pc = "ssl"
    /\ feat = [secure |-> TRUE, openssl |-> TRUE, vendored |-> FALSE]
    /\ fs \in {f \in FsFor(Modules(feat)) : FirstBad(Modules(feat), f) = 0}
    /\ cache \in {[known |-> TRUE, lines |-> c] : c \in Caches}
    /\ tree = {}
    /\ Idle

NextSsl == SslLink

SpecSsl == InitSsl /\ [][NextSsl]_vars

---------------------------------------------------------------------------
(* bindgen_grpc on any header tree, run after run *)

MaxEntries == 3

MaxScans == 2

\* The trees of at most MaxEntries entries
Trees ==
    LET Over(P) == {{[path |-> p, kind |-> f[p]] : p \in P} : f \in [P -> EntryKinds]}
        All == UNION {Over(P) : P \in {Q \in SUBSET HeaderPaths : Cardinality(Q) <= MaxEntries}}
    IN {t \in All : IsTree(t)}

InitScan ==
    /\ pc = "bindgen"
    /\ feat = [secure |-> FALSE, openssl |-> FALSE, vendored |-> FALSE]
    /\ fs \in {f \in FsFor(Modules(feat)) : FirstBad(Modules(feat), f) = 0}
    /\ cache = NoCache
    /\ tree \in Trees
    /\ Idle

\* One more run scans the tree, which no run changes, in whatever order
\* WalkDir enumerates it.
Rescan ==
    /\ pc = "bindgen"
    /\ Len(calls) < MaxScans
    /\ \E walk \in Walks(tree) : \E xlateOk \in BOOLEAN :
        calls' = Append(calls, BindgenGrpc(walk, TRUE, xlateOk, OutFile(<<Slash, "o">>)))
    /\ UNCHANGED <<pc, feat, env, out, stages, fail, fs, cmake, cache, cnt, tree>>

NextScan == Rescan

SpecScan == InitScan /\ [][NextScan]_vars

---------------------------------------------------------------------------
(* setup_libz on any CMAKE_PREFIX_PATH *)

MaxPrefixLen == 3

\* What CMAKE_PREFIX_PATH may hold: nothing, bytes that are not unicode, or
\* a list of entries.
PriorPrefixes ==
    {Unset, NotUnicode} \cup {Text(t) : t \in SeqsUpTo({";", "p", "q"}, MaxPrefixLen)}

\* What DEP_Z_ROOT may hold: nothing, or the directory libz-sys built in.
ZlibRoots == {Unset, Text(<<Slash, "z">>), Text(<<"z", Slash, "out">>)}

InitLibz ==
    /\ pc = "setup_libz"
    /\ feat \in Features
    /\ fs \in {f \in FsFor(Modules(feat)) : FirstBad(Modules(feat), f) = 0}
    /\ cache = NoCache
    /\ tree = {}
    /\ \E z \in ZlibRoots : \E p \in PriorPrefixes :
        env = [v \in EnvVars |-> IF v = "DEP_Z_ROOT" THEN z
                                 ELSE IF v = "CMAKE_PREFIX_PATH" THEN p
                                 ELSE Unread]
    /\ out = <<>>
    /\ stages = <<>>
    /\ fail = NoFail
    /\ cmake = <<>>
    /\ cnt = 0
    /\ calls = <<>>

NextLibz == SetupLibz

SpecLibz == InitLibz /\ [][NextLibz]_vars

---------------------------------------------------------------------------
(* Vocabulary of the properties *)

InStages(name) == \E i \in DOMAIN stages : stages[i] = name

IsSearch(d) == d.kind = "rustc-link-search"

IsLib(d) == d.kind = "rustc-link-lib"

IsStatic(d) == IsLib(d) /\ d.mod = "static"

IsBindingPath(d) == d.kind = "rustc-env" /\ d.mod = "BINDING_PATH"

\* main took the branch that builds from source: both of its get_env calls
\* returned and GRPCIO_SYS_USE_PKG_CONFIG is not "1".
FromSource == env["GRPCIO_SYS_USE_PKG_CONFIG"] \in {Unset, Val("0")}

\* The library main asks for
Requested == IF feat.secure THEN <<"grpc">> ELSE <<"grpc_unsecure">>

\* openssl asked for, and not the vendored one
ExternalCrypto == feat.secure /\ feat.openssl /\ ~feat.vendored

CryptoNames == {<<"ssl">>, <<"crypto">>}

\* build_grpc has returned
BuildGrpcReturned == FromSource /\ (pc = "cc" \/ InStages("cc_compile"))

\* config_binding_path has run, to its end or to a panic
BindingActed == InStages("config_binding_path")

---------------------------------------------------------------------------
(* C1 *)

\* C1, as stated: in a successful run from source the requested top-level
\* library is the last static library printed, and no search path is printed
\* after a library.
C1_TopLevelLastSearchFirst ==
    (pc = "done" /\ FromSource) =>
        /\ \E i \in DOMAIN out :
            /\ IsStatic(out[i]) /\ out[i].arg = Requested
            /\ \A j \in DOMAIN out : j > i => ~IsStatic(out[j])
        /\ \A i, j \in DOMAIN out : (i < j /\ IsLib(out[i])) => ~IsSearch(out[j])

\* C1, amended: in a successful run from source the requested top-level
\* library is printed as a static library, and the only static libraries
\* after it are ssl and crypto, which are printed only with the secure
\* feature and a crypto library that is not external; a search path follows
\* a library only when that library is the CoreFoundation framework of a
\* macos or ios target, or when figure_ssl_path printed the path for an
\* external crypto library.
C1_TopLevelBeforeCryptoOnly ==
    (pc = "done" /\ FromSource) =>
        /\ \E i \in DOMAIN out :
            /\ IsStatic(out[i]) /\ out[i].arg = Requested
            /\ \A j \in DOMAIN out :
                (j > i /\ IsStatic(out[j])) => out[j].arg \in CryptoNames
        /\ \A j \in DOMAIN out :
            (IsStatic(out[j]) /\ out[j].arg \in CryptoNames)
                => (feat.secure /\ ~ExternalCrypto)
        /\ \A i, j \in DOMAIN out :
            (i < j /\ IsLib(out[i]) /\ IsSearch(out[j])) =>
                \/ /\ out[i].mod = "framework" /\ out[i].arg = <<"CoreFoundation">>
                   /\ env["CARGO_CFG_TARGET_OS"] \in {Val("macos"), Val("ios")}
                \/ out[j].by = "figure_ssl_path" /\ ExternalCrypto

\* A run from source for macos with the bundled boringssl has ended: the
\* framework came first and ssl and crypto came after grpc.
C1_Witness ==
    /\ pc = "done" /\ FromSource
    /\ env["CARGO_CFG_TARGET_OS"] = Val("macos")
    /\ feat.secure /\ ~feat.openssl
    /\ \E i, j \in DOMAIN out :
        i < j /\ out[i].arg = <<"grpc">> /\ IsStatic(out[j]) /\ out[j].arg = <<"crypto">>

---------------------------------------------------------------------------
(* C2 *)

\* C2: for a reuse triple, once config_binding_path has run with its
\* manifest directory known: without the override (UPDATE_BIND is not "1")
\* bindgen_grpc was not called and the run ended with the checked-in path
\* printed; with the override bindgen_grpc was called exactly once, on that
\* same checked-in path; in both cases every binding path printed is the
\* checked-in one.
C2_ReuseTripleKeepsCheckedInPath ==
    \A t \in {"x86_64-unknown-linux-gnu", "aarch64-unknown-linux-gnu"} :
        (BindingActed /\ env["TARGET"] = Val(t) /\ env["CARGO_MANIFEST_DIR"].st = "set") =>
            LET checkedIn == env["CARGO_MANIFEST_DIR"].v
                             \o <<"/", "bindings", "/", t, "-bindings.rs">>
                printed == {i \in DOMAIN out : IsBindingPath(out[i])}
            IN /\ env["UPDATE_BIND"] # Val("1") =>
                    calls = <<>> /\ pc = "done" /\ printed # {}
               /\ env["UPDATE_BIND"] = Val("1") =>
                    /\ Len(calls) = 1 /\ calls[1].file_path = checkedIn
                    /\ pc = "done" <=> calls[1].fail = NoFail
                    /\ pc = "done" => printed # {}
               /\ \A i \in printed : out[i].arg = checkedIn /\ i = Len(out)

\* A run for aarch64 linux with UPDATE_BIND=1 has regenerated the checked-in
\* file and printed its path.
C2_Witness ==
    /\ BindingActed /\ pc = "done"
    /\ env["TARGET"] = Val("aarch64-unknown-linux-gnu")
    /\ env["UPDATE_BIND"] = Val("1")
    /\ Len(calls) = 1
    /\ IsBindingPath(out[Len(out)])

---------------------------------------------------------------------------
(* C10 *)

\* C10: for a triple that is not a reuse triple, once config_binding_path has
\* run with OUT_DIR known, bindgen_grpc was called exactly once, on
\* OUT_DIR/grpc-bindings.rs, without UPDATE_BIND ever being read, and that
\* file is the only binding path printed; a checked-in path is printed only
\* for the two reuse triples.
C10_OtherTriplesRegenerate ==
    /\ (/\ BindingActed /\ env["TARGET"].st = "set" /\ env["OUT_DIR"].st = "set"
        /\ env["TARGET"] \notin {Val("x86_64-unknown-linux-gnu"),
                                 Val("aarch64-unknown-linux-gnu")}) =>
            LET runFile == env["OUT_DIR"].v \o <<"/", "grpc-bindings.rs">>
                printed == {i \in DOMAIN out : IsBindingPath(out[i])}
            IN /\ Len(calls) = 1 /\ calls[1].file_path = runFile
               /\ env["UPDATE_BIND"] = Unread
               /\ pc = "done" <=> calls[1].fail = NoFail
               /\ pc = "done" => printed # {}
               /\ \A i \in printed : out[i].arg = runFile /\ i = Len(out)
    /\ \A i \in DOMAIN out :
        (IsBindingPath(out[i]) /\ out[i].arg[Len(out[i].arg)] = "-bindings.rs") =>
            env["TARGET"] \in {Val("x86_64-unknown-linux-gnu"),
                               Val("aarch64-unknown-linux-gnu")}

\* A run for a musl triple has generated its bindings under OUT_DIR.
C10_Witness ==
    /\ BindingActed /\ pc = "done"
    /\ env["TARGET"] = Val("x86_64-unknown-linux-musl")
    /\ Len(calls) = 1 /\ calls[1].fail = NoFail
    /\ out[Len(out)].arg = <<"/", "o", "/", "grpc-bindings.rs">>

---------------------------------------------------------------------------
(* C5 *)

HasLib(mod, name) ==
    \E i \in DOMAIN out : IsLib(out[i]) /\ out[i].mod = mod /\ out[i].arg = <<name>>

\* C5: in a run from source, without the secure feature no ssl or crypto
\* library is ever printed, figure_ssl_path is never called, and grpc_unsecure
\* is the top-level library linked; with the secure feature and an external
\* crypto library figure_ssl_path has been called when build_grpc returns and
\* ssl and crypto are linked as it left them, not as static libraries; with
\* the secure feature otherwise ssl and crypto are linked as static libraries
\* and figure_ssl_path is not called.
C5_CryptoLinkFollowsFeatures ==
    FromSource =>
        /\ ~feat.secure =>
            /\ \A i \in DOMAIN out : IsLib(out[i]) => out[i].arg \notin CryptoNames
            /\ ~InStages("figure_ssl_path")
            /\ ~HasLib("static", "grpc")
            /\ BuildGrpcReturned => HasLib("static", "grpc_unsecure")
        /\ feat.secure =>
            /\ ~HasLib("static", "grpc_unsecure")
            /\ BuildGrpcReturned => HasLib("static", "grpc")
        /\ ExternalCrypto =>
            /\ ~HasLib("static", "ssl") /\ ~HasLib("static", "crypto")
            /\ BuildGrpcReturned =>
                /\ InStages("figure_ssl_path")
                /\ HasLib("", "ssl") /\ HasLib("", "crypto")
                /\ \E i \in DOMAIN out : IsSearch(out[i]) /\ out[i].by = "figure_ssl_path"
        /\ (feat.secure /\ ~ExternalCrypto) =>
            /\ ~InStages("figure_ssl_path")
            /\ ~HasLib("", "ssl") /\ ~HasLib("", "crypto")
            /\ BuildGrpcReturned => (HasLib("static", "ssl") /\ HasLib("static", "crypto"))

\* build_grpc has returned with a vendored openssl: ssl and crypto are
\* static, and the locator was not called.
C5_Witness ==
    /\ BuildGrpcReturned
    /\ feat.secure /\ feat.openssl /\ feat.vendored
    /\ HasLib("static", "crypto")
    /\ ~InStages("figure_ssl_path")

---------------------------------------------------------------------------
(* C6 *)

\* The modules of main's list that are empty or cannot be read
BadModules == {i \in DOMAIN Modules(feat) : fs[Modules(feat)[i]] # "populated"}

NoLinkPlan == \A i \in DOMAIN out : ~IsSearch(out[i]) /\ ~IsLib(out[i])

\* The native build ran only after prepare_grpc, with every module populated.
BuildOnlyAfterVerify ==
    cmake # <<>> =>
        /\ BadModules = {}
        /\ \E i, j \in DOMAIN stages :
            i < j /\ stages[i] = "prepare_grpc" /\ stages[j] = "cmake"

\* C6, as stated, without the wording of the panic: in any run the native
\* build follows a prepare_grpc that found every module populated; and when
\* a module of the list is missing, unreadable or empty, the run does not
\* complete, runs no native build and prints no link directive.
C6_AnyRunAbortsOnMissingModule ==
    /\ BuildOnlyAfterVerify
    /\ BadModules # {} =>
        /\ cmake = <<>>
        /\ NoLinkPlan
        /\ pc # "done"

\* C6, amended: in any run the native build follows a prepare_grpc that found
\* every module populated; and in a run that builds from source, when a
\* module of the list is missing, unreadable or empty, prepare_grpc ends the
\* run in the panic that names the first such module of the list, with no
\* native build and no link directive.
C6_SourceRunAbortsOnMissingModule ==
    /\ BuildOnlyAfterVerify
    /\ (FromSource /\ BadModules # {}) =>
        /\ cmake = <<>>
        /\ NoLinkPlan
        /\ pc \in {"prepare", "failed"}
        /\ pc = "failed" =>
            /\ fail.why = "Can't find module"
            /\ \E i \in BadModules :
                /\ fail.arg = Modules(feat)[i]
                /\ \A j \in BadModules : i <= j

\* A run from source has stopped at boringssl, which could not be read,
\* after the four modules before it were found populated.
C6_Witness ==
    /\ FromSource /\ pc = "failed"
    /\ fs["grpc/third_party/boringssl-with-bazel"] = "unreadable"
    /\ fail = Panic("Can't find module", "grpc/third_party/boringssl-with-bazel")

---------------------------------------------------------------------------
(* C7 *)

StageRank ==
    [ probe_library |-> 1, prepare_grpc |-> 1, cmake |-> 2, link_plan |-> 3,
      figure_ssl_path |-> 4, cc_compile |-> 5, config_binding_path |-> 6 ]

\* The stages a run that prints the binding path must have gone through
StagesOfFullRun ==
    IF FromSource
    THEN <<"prepare_grpc", "cmake", "link_plan">>
         \o (IF ExternalCrypto THEN <<"figure_ssl_path">> ELSE <<>>)
         \o <<"cc_compile", "config_binding_path">>
    ELSE <<"probe_library", "cc_compile", "config_binding_path">>

C7_State ==
    /\ \A i, j \in DOMAIN stages : i < j => StageRank[stages[i]] < StageRank[stages[j]]
    /\ (fail # NoFail) <=> (pc = "failed")
    /\ InStages("cmake") => BadModules = {}
    /\ InStages("link_plan") => (cmake # <<>> /\ env["DEP_Z_ROOT"].st = "set")
    /\ (InStages("cc_compile") /\ InStages("figure_ssl_path")) => cnt = 2
    /\ (\E i \in DOMAIN out : IsBindingPath(out[i])) =>
        /\ pc = "done" /\ fail = NoFail
        /\ stages = StagesOfFullRun
        /\ IsBindingPath(out[Len(out)])
        /\ \A i \in DOMAIN calls : calls[i].fail = NoFail
        /\ env["TARGET"].st = "set"

\* C7: the stages run in the one order (module verification or the
\* pkg-config probe, native build, link plan, SSL location, shim compile,
\* binding path), each only after the ones before it succeeded; a panic ends
\* the run at once: after it no stage runs and nothing is printed; and the
\* binding path is printed last, only by a run all of whose stages succeeded.
C7_SequentialAndFatal ==
    /\ []C7_State
    /\ [][/\ pc = "failed" => UNCHANGED vars
          /\ fail' # NoFail => pc' = "failed"
          /\ \A i \in DOMAIN out : out'[i] = out[i]]_vars

\* A run from source has stopped at the shim compile, after the build and
\* the link plan.
C7_Witness ==
    /\ FromSource /\ pc = "failed"
    /\ fail.why = "cc compile failed"
    /\ InStages("link_plan")
    /\ ~BindingActed

---------------------------------------------------------------------------
(* C3 and C4 *)

\* The line starts with one of the two keys.
HasKey(l) == l # <<>> /\ l[1] \in {CryptoKey, SslKey}

\* The lines of the cache that start with a key, in the order of the file
KeyLines == SelectSeq(cache.lines, HasKey)

\* What a line carries after its key
Carried(l) == SubSeq(l, 2, Len(l))

RECURSIVE AfterKeys(_, _)
\* What is left of a line once every leading repetition of key is removed
AfterKeys(l, key) == IF l # <<>> /\ l[1] = key THEN AfterKeys(Tail(l), key) ELSE l

\* figure_ssl_path has run, to its end or to a panic.
LocatorActed == InStages("figure_ssl_path")

SearchLine(dir) ==
    [kind |-> "rustc-link-search", mod |-> "native", arg |-> dir, by |-> "figure_ssl_path"]

\* C3, as stated: figure_ssl_path panics whenever the lines that start with
\* a key are not exactly two; when they are two it returns, and the two
\* search paths it printed are the parent directories of the paths those two
\* lines carry.
C3_TwoKeysGiveTheirParents ==
    LocatorActed =>
        /\ Len(KeyLines) # 2 => pc = "failed"
        /\ Len(KeyLines) = 2 =>
            /\ pc = "cc"
            /\ SelectSeq(out, IsSearch)
                 = << SearchLine(Parent(Carried(KeyLines[1])).v),
                      SearchLine(Parent(Carried(KeyLines[2])).v) >>

\* C3, amended: figure_ssl_path panics whenever the lines that start with a
\* key are not exactly two.  When they are two, take of each what is left
\* once every leading repetition of its key is removed (the path the line
\* carries, unless that path itself starts with the key): if both remainders
\* have a parent directory, figure_ssl_path returns and the two search paths
\* it printed are those parents, in the order of the lines; if one has none
\* (it is empty or a root), figure_ssl_path panics.
C3_TwoKeysGiveParentsOfRemainders ==
    LocatorActed =>
        LET rest == [i \in DOMAIN KeyLines |-> AfterKeys(KeyLines[i], KeyLines[i][1])]
            located == \A i \in DOMAIN rest : Parent(rest[i]).some
        IN /\ Len(KeyLines) # 2 => pc = "failed"
           /\ (Len(KeyLines) = 2 /\ ~located) => pc = "failed"
           /\ (Len(KeyLines) = 2 /\ located) =>
               /\ pc = "cc"
               /\ cnt = 2
               /\ out = << SearchLine(Parent(rest[1]).v), SearchLine(Parent(rest[2]).v),
                           LinkDylib("ssl", "figure_ssl_path"),
                           LinkDylib("crypto", "figure_ssl_path") >>

\* figure_ssl_path has returned on a cache with a third line and with a
\* crypto line whose key is doubled: /opt and /usr were printed.
C3_Witness ==
    /\ LocatorActed /\ pc = "cc"
    /\ cache.lines = << <<SslKey>> \o OptSsl, <<>>, <<CryptoKey, CryptoKey>> \o UsrCrypto >>
    /\ out[1].arg = <<"/", "opt">> /\ out[2].arg = <<"/", "usr">>

\* C4: whenever figure_ssl_path returns, one of the lines it matched starts
\* with the crypto key and the other with the ssl key.
C4_SuccessHasBothKeys ==
    (LocatorActed /\ pc = "cc") =>
        /\ Cardinality({i \in DOMAIN cache.lines :
                          starts_with(cache.lines[i], CryptoKey)}) = 1
        /\ Cardinality({i \in DOMAIN cache.lines :
                          starts_with(cache.lines[i], SslKey)}) = 1

---------------------------------------------------------------------------
(* C8 *)

\* a comes before b in the order of the bytes
BytesBefore(a, b) ==
    \E k \in 1..(Len(a) + 1) :
        /\ k <= Len(b)
        /\ \A i \in 1..(k - 1) : a[i] = b[i]
        /\ k = Len(a) + 1 \/ a[k] < b[k]

\* The regular files of the tree whose content holds a marker
ApiFiles == {e.path : e \in {x \in tree : x.kind \in {"GRPCAPI", "GPRAPI", "both"}}}

\* C8: every header list handed to the translator holds exactly the regular
\* files of the tree that contain GRPCAPI or GPRAPI, in strictly ascending
\* byte order, so each once; every scan of the unchanged tree hands over the
\* same list, whatever the order of the enumeration.
C8_HeaderListSortedAndExact ==
    /\ \A c \in DOMAIN calls :
        calls[c].handed =>
            LET h == calls[c].headers IN
            /\ {h[k] : k \in DOMAIN h} = ApiFiles
            /\ \A k, m \in DOMAIN h : k < m => BytesBefore(h[k], h[m])
    /\ \A c, d \in DOMAIN calls :
        (calls[c].handed /\ calls[d].handed) => calls[c].headers = calls[d].headers

\* Two scans of a tree with two API headers, one of them in a directory,
\* have each handed over a.h, then a/b.h.
C8_Witness ==
    /\ Len(calls) = 2
    /\ calls[1].handed /\ calls[2].handed
    /\ calls[2].headers = << <<97, 46, 104>>, <<97, 47, 98, 46, 104>> >>
    /\ Cardinality(tree) = 3

---------------------------------------------------------------------------
(* C9 *)

RECURSIVE SplitList(_, _)
\* The entries of a list: the text between its separators.
SplitList(s, cur) ==
    IF s = <<>> THEN <<cur>>
    ELSE IF s[1] = ";" THEN <<cur>> \o SplitList(Tail(s), <<>>)
    ELSE SplitList(Tail(s), Append(cur, s[1]))

\* The entries of CMAKE_PREFIX_PATH, none when it holds no list
PrefixEntries(value) == IF value.st = "set" THEN SplitList(value.v, <<>>) ELSE <<>>

\* setup_libz has just returned.
LibzStep == pc = "setup_libz" /\ pc' = "cmake"

\* C9: whatever CMAKE_PREFIX_PATH held before, after setup_libz its entries
\* are the entries it had, in their order, followed by DEP_Z_ROOT/build; when
\* it was unset the value is that one directory.
C9_PrefixPathAppended ==
    [][LibzStep =>
        LET zbuild == env["DEP_Z_ROOT"].v \o <<"/", "build">>
            before == IF env["CMAKE_PREFIX_PATH"] = NotUnicode THEN <<"(bytes)">>
                      ELSE PrefixEntries(env["CMAKE_PREFIX_PATH"])
        IN /\ PrefixEntries(env'["CMAKE_PREFIX_PATH"]) = Append(before, zbuild)
           /\ env["CMAKE_PREFIX_PATH"] = Unset => env'["CMAKE_PREFIX_PATH"] = Text(zbuild)]_vars

\* The same, for a CMAKE_PREFIX_PATH that was unset or held unicode text
C9_UnicodePrefixPathAppended ==
    [][(LibzStep /\ env["CMAKE_PREFIX_PATH"] # NotUnicode) =>
        LET zbuild == env["DEP_Z_ROOT"].v \o <<"/", "build">>
        IN /\ PrefixEntries(env'["CMAKE_PREFIX_PATH"])
                = Append(PrefixEntries(env["CMAKE_PREFIX_PATH"]), zbuild)
           /\ env["CMAKE_PREFIX_PATH"] = Unset => env'["CMAKE_PREFIX_PATH"] = Text(zbuild)]_vars

=============================================================================
